---- MODULE Spec2Model ----
(***************************************************************************)
(* Model of the pattern-based trading decision engine of new-okx:          *)
(* PatternStrategy (src/strategies/pattern_strategy.py) and the state of   *)
(* BitcoinTradingSystem (src/trading/bitcoin_trading_system.py).           *)
(*                                                                         *)
(* Numbers: Python floats are modelled as exact rationals [n, d] in        *)
(* lowest terms with d > 0.  Day names: the Chinese keys of the source     *)
(* are written in ASCII: Zhou1 .. Zhou6 for Monday .. Saturday (the        *)
(* source's U+5468 followed by the numeral) and ZhouRi for Sunday.         *)
(***************************************************************************)
EXTENDS Integers, Sequences, FiniteSets, TLC

VARIABLES
    position,        \* BitcoinTradingSystem.position: NoPosition or a dict
    capital,         \* BitcoinTradingSystem.capital
    pattern_stats,   \* BitcoinTradingSystem.pattern_stats: day -> pattern -> stats
    volatility_data, \* BitcoinTradingSystem.volatility_data: day -> volatility
    risk_level,      \* config.RISK_LEVEL, or NoRiskLevel when the attribute is absent
    now,             \* datetime.now(), in hours
    trade_history,   \* trade results handed to dao.record_trade, in order
    orders,          \* orders accepted by OkexOrderManager.place_order: [buy, sell] counts
    args,            \* the last call: its operation and arguments
    result,          \* the last call's return value
    flag,            \* ExchangeBase._instance.flag, or NoInstance before the first call
    executor,        \* the TradeExecutor: its config.IS_SIMULATED, or NoExecutor
    loader           \* the tasks running load_model_data: each one's position in it

vars == <<position, capital, pattern_stats, volatility_data, risk_level, now,
          trade_history, orders, args, result, flag, executor, loader>>

-----------------------------------------------------------------------------
(* Exact rational arithmetic standing for Python float arithmetic.          *)

RECURSIVE GCD(_, _)
GCD(a, b) == IF b = 0 THEN a ELSE GCD(b, a % b)

Abs(x) == IF x < 0 THEN -x ELSE x

Rat(n, d) ==
    LET s == IF d < 0 THEN -1 ELSE 1
        g == GCD(Abs(n), Abs(d))
    IN  [n |-> (s * n) \div g, d |-> (s * d) \div g]

Int2Rat(i) == [n |-> i, d |-> 1]

\* The operands of an operation are evaluated once, as Python evaluates them:
\* x and y below are the values of a and b.
Only(S) == CHOOSE v \in S : TRUE

RAdd(a, b) ==
    Only({LET g == GCD(x.d, y.d)
          IN  Rat(x.n * (y.d \div g) + y.n * (x.d \div g), (x.d \div g) * y.d) :
          x \in {a}, y \in {b}})

RNeg(a) == Only({[n |-> -x.n, d |-> x.d] : x \in {a}})

RSub(a, b) == RAdd(a, RNeg(b))

RMul(a, b) ==
    Only({LET p == Rat(x.n, y.d)
              q == Rat(y.n, x.d)
          IN  [n |-> p.n * q.n, d |-> p.d * q.d] :
          x \in {a}, y \in {b}})

\* a / b for b # 0 (Python raises ZeroDivisionError otherwise)
RDiv(a, b) == RMul(a, Only({Rat(y.d, y.n) : y \in {b}}))

RLt(a, b) ==
    \E x \in {a}, y \in {b} :
        LET g == GCD(x.d, y.d)
        IN  x.n * (y.d \div g) < y.n * (x.d \div g)

RLe(a, b) ==
    \E x \in {a}, y \in {b} :
        LET g == GCD(x.d, y.d)
        IN  x.n * (y.d \div g) <= y.n * (x.d \div g)

\* Python's max(a, b) and min(a, b)
RMax(a, b) == IF RLt(a, b) THEN b ELSE a

RMin(a, b) == IF RLt(b, a) THEN b ELSE a

Zero == Int2Rat(0)

One == Int2Rat(1)

-----------------------------------------------------------------------------
(* PatternStrategy.analyze_pattern                                          *)

Patterns == {"continuous_rise", "continuous_fall", "rise_then_fall", "fall_then_rise"}

TrendLabel(first, second) ==
    IF first /\ ~second THEN "rise_then_fall"
    ELSE IF ~first /\ second THEN "fall_then_rise"
    ELSE IF first /\ second THEN "continuous_rise"
    ELSE "continuous_fall"

AnalyzePatternRiseOnEqual(price_history) ==
    LET len == Len(price_history)
    IN  IF len < 2 THEN "insufficient_data"
        ELSE IF len = 2 THEN
            IF price_history[2] >= price_history[1] THEN "continuous_rise"
            ELSE "continuous_fall"
        ELSE IF len >= 4 THEN
            LET half == len \div 2
            IN  TrendLabel(price_history[half] > price_history[1],
                           price_history[len] > price_history[half + 1])
        ELSE TrendLabel(price_history[2] > price_history[1],
                        price_history[3] > price_history[2])

AnalyzePatternNeedsThree(price_history) ==
    LET len == Len(price_history)
    IN  IF len < 3 THEN "insufficient_data"
        ELSE IF len >= 4 THEN
            LET half == len \div 2
            IN  TrendLabel(price_history[half] > price_history[1],
                           price_history[len] > price_history[half + 1])
        ELSE TrendLabel(price_history[2] > price_history[1],
                        price_history[3] > price_history[2])

AnalyzePatternMiddleInFirstHalf(price_history) ==
    LET len == Len(price_history)
    IN  IF len < 2 THEN "insufficient_data"
        ELSE IF len = 2 THEN
            IF price_history[2] > price_history[1] THEN "continuous_rise"
            ELSE "continuous_fall"
        ELSE IF len >= 4 THEN
            LET half == (len + 1) \div 2
            IN  TrendLabel(price_history[half] > price_history[1],
                           price_history[len] > price_history[half + 1])
        ELSE TrendLabel(price_history[2] > price_history[1],
                        price_history[3] > price_history[2])

analyze_pattern(price_history) ==
    LET len == Len(price_history)
    IN  IF len < 2 THEN "insufficient_data"
        ELSE IF len = 2 THEN
            IF price_history[2] > price_history[1] THEN "continuous_rise"
            ELSE "continuous_fall"
        ELSE IF len >= 4 THEN
            LET half == len \div 2
                first_half == SubSeq(price_history, 1, half)
                second_half == SubSeq(price_history, half + 1, len)
                first_trend == first_half[Len(first_half)] > first_half[1]
                second_trend == second_half[Len(second_half)] > second_half[1]
            IN  TrendLabel(first_trend, second_trend)
        ELSE
            LET first_change == price_history[2] > price_history[1]
                second_change == price_history[3] > price_history[2]
            IN  TrendLabel(first_change, second_change)

-----------------------------------------------------------------------------
(* Day names and the two dictionaries of should_trade                       *)

EnglishDays == {"Monday", "Tuesday", "Wednesday", "Thursday", "Friday", "Saturday", "Sunday"}

ChineseDays == {"Zhou1", "Zhou2", "Zhou3", "Zhou4", "Zhou5", "Zhou6", "ZhouRi"}

weekday_map ==
    [d \in EnglishDays |->
        CASE d = "Monday" -> "Zhou1"
          [] d = "Tuesday" -> "Zhou2"
          [] d = "Wednesday" -> "Zhou3"
          [] d = "Thursday" -> "Zhou4"
          [] d = "Friday" -> "Zhou5"
          [] d = "Saturday" -> "Zhou6"
          [] d = "Sunday" -> "ZhouRi"]

previous_day_map ==
    [d \in ChineseDays |->
        CASE d = "Zhou1" -> "ZhouRi"
          [] d = "Zhou2" -> "Zhou1"
          [] d = "Zhou3" -> "Zhou2"
          [] d = "Zhou4" -> "Zhou3"
          [] d = "Zhou5" -> "Zhou4"
          [] d = "Zhou6" -> "Zhou5"
          [] d = "ZhouRi" -> "Zhou6"]

\* dict.get(key, default)
DictGet(dict, key, default) == IF key \in DOMAIN dict THEN dict[key] ELSE default

CurrentDay(day) == DictGet(weekday_map, day, day)

PreviousDayUnshifted(day) == CurrentDay(day)

PreviousDay(day) == DictGet(previous_day_map, CurrentDay(day), CurrentDay(day))

-----------------------------------------------------------------------------
(* PatternStrategy.calculate_position_size                                  *)

NoRiskLevel == "absent"

risk_multiplier ==
    [r \in {"low", "medium", "high"} |->
        CASE r = "low" -> Rat(10, 100)
          [] r = "medium" -> Rat(25, 100)
          [] r = "high" -> Rat(50, 100)]

\* getattr(self.system.config, 'RISK_LEVEL', 'low')
RiskLevelOf(level) == IF level = NoRiskLevel THEN "low" ELSE level

HasStats(stats, day, pattern) == day \in DOMAIN stats /\ pattern \in DOMAIN stats[day]

KellyWithoutFloor(win_rate, return_rate) ==
    IF RLt(Zero, return_rate)
    THEN RSub(win_rate, RDiv(RSub(One, win_rate), RDiv(return_rate, Rat(1, 100))))
    ELSE Zero

KellyOfLosses(win_rate, return_rate) ==
    IF RLt(Zero, return_rate)
    THEN RMax(Zero, RSub(RSub(One, win_rate),
                         RDiv(win_rate, RDiv(return_rate, Rat(1, 100)))))
    ELSE Zero

KellyOf(win_rate, return_rate) ==
    IF RLt(Zero, return_rate)
    THEN RMax(Zero, RSub(win_rate,
                         RDiv(RSub(One, win_rate), RDiv(return_rate, Rat(1, 100)))))
    ELSE Zero

\* the exception risk_multiplier[risk_level] raises for an unknown risk level
KeyError == [raised |-> "KeyError"]

calculate_position_size(stats, level, pattern, day) ==
    IF DOMAIN stats = {} THEN Rat(1, 10)
    ELSE IF HasStats(stats, day, pattern)
    THEN LET s == stats[day][pattern]
             kelly == KellyOf(s.win_rate, s.return_rate)
         IN  IF RiskLevelOf(level) \in DOMAIN risk_multiplier
             THEN RMin(RMul(kelly, risk_multiplier[RiskLevelOf(level)]), Rat(5, 10))
             ELSE KeyError
    ELSE Rat(1, 10)

-----------------------------------------------------------------------------
(* PatternStrategy.set_stop_loss                                            *)

StopMultiplierInclusive(volatility) ==
    IF RLe(Rat(25, 1000), volatility) THEN Rat(15, 10)
    ELSE IF RLe(volatility, Rat(2, 100)) THEN Rat(2, 1)
    ELSE Rat(18, 10)

StopMultiplier(volatility) ==
    IF RLt(Rat(25, 1000), volatility) THEN Rat(15, 10)
    ELSE IF RLt(volatility, Rat(2, 100)) THEN Rat(2, 1)
    ELSE Rat(18, 10)

set_stop_loss(vol_data, price, day) ==
    IF DOMAIN vol_data = {} THEN RMul(price, Rat(98, 100))
    ELSE LET volatility == DictGet(vol_data, day, Rat(2, 100))
             stop_loss_percentage == RMul(volatility, StopMultiplier(volatility))
         IN  RMul(price, RSub(One, stop_loss_percentage))

-----------------------------------------------------------------------------
(* PatternStrategy.should_trade                                             *)

NoTrade == [trade |-> FALSE, direction |-> "none", size |-> Zero]

ForbiddenFridayOnly(previous_day, pattern) ==
    previous_day = "Zhou5" /\ pattern = "continuous_rise"

Forbidden(previous_day, pattern) ==
    \/ previous_day = "Zhou5" /\ pattern = "continuous_rise"
    \/ previous_day = "Zhou6" /\ pattern = "fall_then_rise"

WinRateThreshold == Rat(55, 100)

AboveThresholdOrEqual(win_rate) == RLe(WinRateThreshold, win_rate)

\* stats['win_rate'] > 0.55
AboveThreshold(win_rate) == RLt(WinRateThreshold, win_rate)

Approval(stats, level, pattern, previous_day) ==
    LET position_size == calculate_position_size(stats, level, pattern, previous_day)
    IN  IF position_size = KeyError THEN KeyError
        ELSE [trade |-> TRUE, direction |-> "long", size |-> position_size]

should_trade(stats, level, price_history, day) ==
    IF Len(price_history) < 2 THEN NoTrade
    ELSE LET pattern == analyze_pattern(price_history)
             previous_day == PreviousDay(day)
         IN  IF DOMAIN stats = {} THEN NoTrade
             ELSE IF Forbidden(previous_day, pattern) THEN NoTrade
             ELSE IF HasStats(stats, previous_day, pattern)
             THEN IF AboveThreshold(stats[previous_day][pattern].win_rate)
                  THEN Approval(stats, level, pattern, previous_day)
                  ELSE NoTrade
             ELSE NoTrade

-----------------------------------------------------------------------------
(* PatternStrategy.update_position and check_exit_signals                   *)

NoPosition == [none |-> TRUE]

IsOpen(p) == p # NoPosition

ProfitPct(p, current_price) == RDiv(RSub(current_price, p.entry_price), p.entry_price)

CandidateStopInclusive(p, current_price) ==
    LET profit_pct == ProfitPct(p, current_price)
    IN  IF RLe(Rat(3, 100), profit_pct) THEN RMul(p.entry_price, Rat(101, 100))
        ELSE IF RLe(Rat(2, 100), profit_pct) THEN RMul(p.entry_price, Rat(1005, 1000))
        ELSE IF RLe(Rat(1, 100), profit_pct) THEN p.entry_price
        ELSE p.stop_loss

CandidateStopAtPrice(p, current_price) ==
    LET profit_pct == ProfitPct(p, current_price)
    IN  IF RLt(Rat(3, 100), profit_pct) THEN current_price
        ELSE IF RLt(Rat(2, 100), profit_pct) THEN current_price
        ELSE IF RLt(Rat(1, 100), profit_pct) THEN p.entry_price
        ELSE p.stop_loss

CandidateStop(p, current_price) ==
    LET profit_pct == ProfitPct(p, current_price)
    IN  IF RLt(Rat(3, 100), profit_pct) THEN RMul(p.entry_price, Rat(101, 100))
        ELSE IF RLt(Rat(2, 100), profit_pct) THEN RMul(p.entry_price, Rat(1005, 1000))
        ELSE IF RLt(Rat(1, 100), profit_pct) THEN p.entry_price
        ELSE p.stop_loss

NewStopLossWithoutMax(p, current_price) == CandidateStop(p, current_price)

NewStopLoss(p, current_price) == RMax(CandidateStop(p, current_price), p.stop_loss)

\* the dict is mutated in place and returned inside the update result
update_position(p, current_price) ==
    IF ~IsOpen(p) THEN [action |-> "no_position"]
    ELSE LET q == [p EXCEPT !.stop_loss = NewStopLoss(p, current_price)]
         IN  [action |-> "update_position",
              position |-> q,
              new_stop_loss |-> q.stop_loss,
              current_profit_pct |-> ProfitPct(p, current_price)]

TimeLimitHours == 24

ExitSignalsWithoutTimeLimit(p, current_price, clock) ==
    IF p = [none |-> TRUE] THEN [action |-> "no_position"]
    ELSE IF RLe(current_price, p.stop_loss)
    THEN [action |-> "close_position", reason |-> "stop_loss"]
    ELSE IF RLe(p.take_profit, current_price)
    THEN [action |-> "close_position", reason |-> "take_profit"]
    ELSE [action |-> "hold_position"]

ExitSignalsTargetFirst(p, current_price, clock) ==
    IF p = [none |-> TRUE] THEN [action |-> "no_position"]
    ELSE IF RLe(p.take_profit, current_price)
    THEN [action |-> "close_position", reason |-> "take_profit"]
    ELSE IF RLe(current_price, p.stop_loss)
    THEN [action |-> "close_position", reason |-> "stop_loss"]
    ELSE IF clock - p.entry_time > 24
    THEN [action |-> "close_position", reason |-> "time_limit"]
    ELSE [action |-> "hold_position"]

check_exit_signals(p, current_price, clock) ==
    IF ~IsOpen(p) THEN [action |-> "no_position"]
    ELSE IF RLe(current_price, p.stop_loss)
    THEN [action |-> "close_position", reason |-> "stop_loss"]
    ELSE IF RLe(p.take_profit, current_price)
    THEN [action |-> "close_position", reason |-> "take_profit"]
    ELSE IF clock - p.entry_time > TimeLimitHours
    THEN [action |-> "close_position", reason |-> "time_limit"]
    ELSE [action |-> "hold_position"]

-----------------------------------------------------------------------------
(* BitcoinTradingSystem.load_model_data and _set_default_model_data          *)

EmptyDict == << >>

\* d[key] = value
DictSet(dict, key, value) ==
    [k \in DOMAIN dict \cup {key} |-> IF k = key THEN value ELSE dict[k]]

StatsEntry(win_rate, return_rate) ==
    [win_rate |-> win_rate, return_rate |-> return_rate, cases |-> 100]

default_pattern_stats ==
    [day \in {"Sunday", "Friday", "Saturday"} |->
        CASE day = "Sunday" ->
                [p \in {"rise_then_fall", "continuous_fall", "fall_then_rise"} |->
                    CASE p = "rise_then_fall" -> StatsEntry(Rat(6125, 10000), Rat(64, 10000))
                      [] p = "continuous_fall" -> StatsEntry(Rat(6036, 10000), Rat(97, 10000))
                      [] p = "fall_then_rise" -> StatsEntry(Rat(4338, 10000), Rat(-50, 10000))]
          [] day = "Friday" ->
                [p \in {"continuous_rise", "rise_then_fall"} |->
                    CASE p = "continuous_rise" -> StatsEntry(Rat(5669, 10000), Rat(83, 10000))
                      [] p = "rise_then_fall" -> StatsEntry(Rat(5868, 10000), Rat(30, 10000))]
          [] day = "Saturday" ->
                [p \in {"continuous_rise"} |-> StatsEntry(Rat(4424, 10000), Rat(-60, 10000))]]

default_volatility_data ==
    [day \in {"Monday", "Wednesday", "Saturday"} |->
        CASE day = "Monday" -> Rat(299, 10000)
          [] day = "Wednesday" -> Rat(295, 10000)
          [] day = "Saturday" -> Rat(152, 10000)]

DefaultModel == [stats |-> default_pattern_stats, vol |-> default_volatility_data]

\* one row of price_patterns; the three rates are percentages
Row(day, pattern, win, ret, move) ==
    [week_period |-> day, pattern |-> pattern, next_day_win_rate |-> win,
     avg_next_return |-> ret, avg_movement |-> move, cases |-> 100]

\* the body of the for loop, for one row
LoadRow(model, row) ==
    LET day == row.week_period
        win_rate == RDiv(row.next_day_win_rate, Int2Rat(100))
        return_rate == RDiv(row.avg_next_return, Int2Rat(100))
        movement == RDiv(row.avg_movement, Int2Rat(100))
        of_day == IF day \in DOMAIN model.stats THEN model.stats[day] ELSE EmptyDict
        entry == [win_rate |-> win_rate, return_rate |-> return_rate, cases |-> row.cases]
    IN  [stats |-> DictSet(model.stats, day, DictSet(of_day, row.pattern, entry)),
         vol |-> DictSet(model.vol, day, RMax(movement, DictGet(model.vol, day, Zero)))]

RECURSIVE LoadRows(_, _, _)
LoadRows(model, rows, i) ==
    IF i > Len(rows) THEN model
    ELSE LoadRows(LoadRow(model, rows[i]), rows, i + 1)

\* the model data load_model_data leaves; db_ok = FALSE when the query raises
load_model_data(pattern_data, db_ok) ==
    IF ~db_ok THEN DefaultModel
    ELSE IF pattern_data = << >> THEN DefaultModel
    ELSE LoadRows([stats |-> EmptyDict, vol |-> EmptyDict], pattern_data, 1)

-----------------------------------------------------------------------------
(* The environment: rows of the price_patterns table, prices, balances.     *)

P(i) == Int2Rat(i)

\* the statistics of tests/test_pattern_logic.py
RowsTest ==
    << Row("ZhouRi", "continuous_rise", P(65), Rat(8, 10), Rat(25, 10)),
       Row("ZhouRi", "continuous_fall", P(58), Rat(6, 10), P(2)),
       Row("Zhou1", "rise_then_fall", P(62), Rat(7, 10), P(3)) >>

\* deny-listed pairs with a high win rate, a win rate of exactly 55%, a high win
\* rate with a negative return, a Kelly value below zero
RowsEdge ==
    << Row("Zhou5", "continuous_rise", P(70), P(1), Rat(22, 10)),
       Row("Zhou6", "fall_then_rise", P(70), P(1), Rat(15, 10)),
       Row("Zhou2", "continuous_rise", P(55), Rat(8, 10), P(2)),
       Row("Zhou3", "continuous_rise", P(60), Rat(-5, 10), P(2)),
       Row("Zhou4", "continuous_rise", P(56), Rat(5, 10), P(2)) >>

\* keys in both representations: statistics by the Chinese name, movement by the
\* English name (day_of_week of trade_history)
RowsMixed ==
    << Row("ZhouRi", "continuous_rise", P(90), P(10), P(1)),
       Row("Monday", "continuous_fall", P(40), Rat(1, 10), Rat(299, 100)),
       Row("Monday", "continuous_rise", P(50), Rat(2, 10), P(1)) >>

\* a day without movement, under the day name the trading loop passes
RowsFlat ==
    << Row("ZhouRi", "continuous_rise", P(65), Rat(8, 10), Rat(25, 10)),
       Row("Monday", "continuous_rise", P(50), Rat(2, 10), P(0)) >>

RowSets == {<< >>, RowsEdge, RowsMixed}

Models == {load_model_data(rows, ok) : rows \in RowSets, ok \in BOOLEAN}

Days == {"Monday", "Thursday"}

Histories == {<<100>>, <<100, 105>>}

Prices == {P(9600), P(10400)}

Balances == {P(1000)}

MaxTime == 25

MaxTrades == 1

MaxOrders == 2

Steps == {25}

-----------------------------------------------------------------------------
(* BitcoinTradingSystem: the handlers                                        *)

Raised == [action |-> "raised"]

NewPosition(direction, price, trade_amount, stop_loss, take_profit, clock, pattern, day) ==
    [direction |-> direction, entry_price |-> price, size |-> trade_amount,
     stop_loss |-> stop_loss, take_profit |-> take_profit, entry_time |-> clock,
     pattern |-> pattern, day |-> day]

TakeProfitTwice(price, stop_loss) ==
    RMul(price, RAdd(One, RMul(RDiv(RSub(price, stop_loss), price), P(2))))

TakeProfit(price, stop_loss) ==
    RMul(price, RAdd(One, RMul(RDiv(RSub(price, stop_loss), price), Rat(15, 10))))

\* the position execute_trade builds from an approval and a balance
OpenedPosition(decision, balance, price, day, price_history) ==
    LET stop_loss == set_stop_loss(volatility_data, price, day)
    IN  NewPosition(decision.direction, price, RMul(balance, decision.size), stop_loss,
                    TakeProfit(price, stop_loss), now, analyze_pattern(price_history), day)

ExecuteTradeKeepsOnFailure(price, day, price_history) ==
    LET decision == should_trade(pattern_stats, risk_level, price_history, day)
    IN  /\ args' = [op |-> "execute_trade", price |-> price, day |-> day,
                    price_history |-> price_history]
        /\ UNCHANGED <<flag, executor, loader>>
        /\ UNCHANGED <<capital, pattern_stats, volatility_data, risk_level, now,
                       trade_history>>
        /\ IF decision = KeyError
           THEN /\ result' = Raised
                /\ UNCHANGED <<position, orders>>
           ELSE IF ~decision.trade
           THEN /\ result' = [action |-> "no_trade", reason |-> "unfavorable_conditions"]
                /\ UNCHANGED <<position, orders>>
           ELSE \E balance_ok \in BOOLEAN, order_ok \in BOOLEAN, balance \in Balances :
                   IF ~balance_ok
                   THEN /\ result' = Raised
                        /\ UNCHANGED <<position, orders>>
                   ELSE LET opened == OpenedPosition(decision, balance, price, day,
                                                     price_history)
                        IN  /\ position' = opened
                            /\ IF order_ok
                               THEN /\ orders' = [orders EXCEPT !.buy = @ + 1]
                                    /\ result' = [action |-> "open_trade",
                                                  details |-> opened]
                               ELSE /\ UNCHANGED orders
                                    /\ result' = [action |-> "trade_failed"]

execute_trade(price, day, price_history) ==
    LET decision == should_trade(pattern_stats, risk_level, price_history, day)
    IN  /\ args' = [op |-> "execute_trade", price |-> price, day |-> day,
                    price_history |-> price_history]
        /\ UNCHANGED <<flag, executor, loader>>
        /\ UNCHANGED <<capital, pattern_stats, volatility_data, risk_level, now,
                       trade_history>>
        /\ IF decision = KeyError
           THEN /\ result' = Raised
                /\ UNCHANGED <<position, orders>>
           ELSE IF ~decision.trade
           THEN /\ result' = [action |-> "no_trade", reason |-> "unfavorable_conditions"]
                /\ UNCHANGED <<position, orders>>
           ELSE \E balance_ok \in BOOLEAN, order_ok \in BOOLEAN, balance \in Balances :
                   IF ~balance_ok
                   THEN \* get_balance raises before self.position is assigned
                        /\ result' = Raised
                        /\ UNCHANGED <<position, orders>>
                   ELSE IF order_ok
                   THEN LET opened == OpenedPosition(decision, balance, price, day,
                                                     price_history)
                        IN  /\ position' = opened
                            /\ orders' = [orders EXCEPT !.buy = @ + 1]
                            /\ result' = [action |-> "open_trade", details |-> opened]
                   ELSE /\ position' = NoPosition
                        /\ UNCHANGED orders
                        /\ result' = [action |-> "trade_failed"]

ProfitLongOnly(p, price) == RSub(price, p.entry_price)

Profit(p, price) ==
    RMul(RSub(price, p.entry_price), IF p.direction = "long" THEN P(1) ELSE P(-1))

TradeResult(p, price, reason, clock) ==
    LET profit == Profit(p, price)
    IN  [entry_time |-> p.entry_time,
         exit_time |-> clock,
         entry_price |-> p.entry_price,
         exit_price |-> price,
         profit_pct |-> RDiv(profit, p.entry_price),
         profit_amount |-> RMul(profit, p.size),
         day_of_week |-> p.day,
         pattern_type |-> p.pattern,
         exit_reason |-> reason]

RecordTradeDropped(trade_result) ==
    UNCHANGED <<trade_history, pattern_stats, volatility_data>>

\* record_trade: the result is handed to dao.record_trade; when the insert succeeds
\* and should_update_model answers yes, refresh_model_data reloads the model data
RecordTrade(trade_result) ==
    /\ trade_history' = Append(trade_history, trade_result)
    /\ \E m \in Models \cup {[stats |-> pattern_stats, vol |-> volatility_data]} :
          pattern_stats' = m.stats /\ volatility_data' = m.vol

\* the closing order is accepted: capital, record, position = None
CloseAccepted(price, reason) ==
    LET trade_result == TradeResult(position, price, reason, now)
    IN  /\ orders' = [orders EXCEPT !.sell = @ + 1]
        /\ capital' = RAdd(capital, trade_result.profit_amount)
        /\ RecordTrade(trade_result)
        /\ position' = NoPosition
        /\ result' = [action |-> "close_position", details |-> trade_result]

ClosePositionDropsOnFailure(price, reason) ==
    IF position = [none |-> TRUE]
    THEN /\ result' = [action |-> "no_position"]
         /\ UNCHANGED <<position, capital, pattern_stats, volatility_data,
                        trade_history, orders>>
    ELSE \E order_ok \in BOOLEAN :
            IF order_ok
            THEN CloseAccepted(price, reason)
            ELSE /\ result' = [action |-> "close_failed"]
                 /\ position' = [none |-> TRUE]
                 /\ UNCHANGED <<capital, pattern_stats, volatility_data,
                                trade_history, orders>>

ClosePositionBody(price, reason) ==
    IF ~IsOpen(position)
    THEN /\ result' = [action |-> "no_position"]
         /\ UNCHANGED <<position, capital, pattern_stats, volatility_data,
                        trade_history, orders>>
    ELSE \E order_ok \in BOOLEAN :
            IF order_ok
            THEN CloseAccepted(price, reason)
            ELSE /\ result' = [action |-> "close_failed"]
                 /\ UNCHANGED <<position, capital, pattern_stats, volatility_data,
                                trade_history, orders>>

close_position(price, reason) ==
    /\ args' = [op |-> "close_position", price |-> price, reason |-> reason]
    /\ UNCHANGED <<flag, executor, loader>>
    /\ UNCHANGED <<risk_level, now>>
    /\ ClosePositionBody(price, reason)

UpdateTradeRatchetFirst(current_price) ==
    /\ args' = [op |-> "update_trade", price |-> current_price]
    /\ UNCHANGED <<flag, executor, loader>>
    /\ UNCHANGED <<risk_level, now>>
    /\ IF position = [none |-> TRUE]
       THEN /\ result' = [action |-> "no_position"]
            /\ UNCHANGED <<position, capital, pattern_stats, volatility_data,
                           trade_history, orders>>
       ELSE LET update_result == update_position(position, current_price)
                exit_signal == check_exit_signals(update_result.position,
                                                  current_price, now)
            IN  IF exit_signal.action = "close_position"
                THEN \E order_ok \in BOOLEAN :
                        IF order_ok
                        THEN CloseAccepted(current_price, exit_signal.reason)
                        ELSE /\ result' = [action |-> "close_failed"]
                             /\ position' = update_result.position
                             /\ UNCHANGED <<capital, pattern_stats, volatility_data,
                                            trade_history, orders>>
                ELSE /\ position' = update_result.position
                     /\ result' = update_result
                     /\ UNCHANGED <<capital, pattern_stats, volatility_data,
                                    trade_history, orders>>

update_trade(current_price) ==
    /\ args' = [op |-> "update_trade", price |-> current_price]
    /\ UNCHANGED <<flag, executor, loader>>
    /\ UNCHANGED <<risk_level, now>>
    /\ IF ~IsOpen(position)
       THEN /\ result' = [action |-> "no_position"]
            /\ UNCHANGED <<position, capital, pattern_stats, volatility_data,
                           trade_history, orders>>
       ELSE LET exit_signal == check_exit_signals(position, current_price, now)
            IN  IF exit_signal.action = "close_position"
                THEN ClosePositionBody(current_price, exit_signal.reason)
                ELSE LET update_result == update_position(position, current_price)
                     IN  /\ position' = update_result.position
                         /\ result' = update_result
                         /\ UNCHANGED <<capital, pattern_stats, volatility_data,
                                        trade_history, orders>>

\* PatternStrategy.should_trade, called on the system's model data
ShouldTradeCall(price_history, day) ==
    LET decision == should_trade(pattern_stats, risk_level, price_history, day)
    IN  /\ args' = [op |-> "should_trade", price_history |-> price_history, day |-> day]
        /\ UNCHANGED <<flag, executor, loader>>
        /\ result' = IF decision = KeyError THEN Raised ELSE decision
        /\ UNCHANGED <<position, capital, pattern_stats, volatility_data, risk_level,
                       now, trade_history, orders>>

\* PatternStrategy.update_position, called on the system's position dict
UpdatePositionCall(current_price) ==
    LET update_result == update_position(position, current_price)
    IN  /\ args' = [op |-> "update_position", position |-> position,
                    price |-> current_price]
        /\ UNCHANGED <<flag, executor, loader>>
        /\ result' = update_result
        /\ position' = IF IsOpen(position) THEN update_result.position ELSE position
        /\ UNCHANGED <<capital, pattern_stats, volatility_data, risk_level, now,
                       trade_history, orders>>

\* PatternStrategy.check_exit_signals, called on the system's position dict
CheckExitCall(current_price) ==
    /\ args' = [op |-> "check_exit_signals", position |-> position,
                price |-> current_price, clock |-> now]
    /\ UNCHANGED <<flag, executor, loader>>
    /\ result' = check_exit_signals(position, current_price, now)
    /\ UNCHANGED <<position, capital, pattern_stats, volatility_data, risk_level, now,
                   trade_history, orders>>

\* load_model_data as a task of its own (the constructor's, the scheduler's)
LoadModelData ==
    \E m \in Models :
            /\ pattern_stats' = m.stats
            /\ volatility_data' = m.vol
            /\ args' = [op |-> "load_model_data"]
            /\ UNCHANGED <<flag, executor, loader>>
            /\ result' = [action |-> "none"]
            /\ UNCHANGED <<position, capital, risk_level, now, trade_history, orders>>

\* the bound on the trades of one behaviour
CanOpen == Len(trade_history) < MaxTrades /\ orders.buy < MaxOrders

\* one iteration of run_trading_loop whose price and history queries succeed
TradingLoopStep ==
    \E current_price \in Prices, price_history \in Histories, day_of_week \in Days :
        IF ~IsOpen(position)
        THEN CanOpen /\ execute_trade(current_price, day_of_week, price_history)
        ELSE update_trade(current_price)

Tick ==
    \E dt \in Steps :
        /\ now + dt <= MaxTime
        /\ now' = now + dt
        /\ UNCHANGED <<position, capital, pattern_stats, volatility_data, risk_level,
                       trade_history, orders, args, result, flag, executor,
                       loader>>

-----------------------------------------------------------------------------
(* The trading system: the state after construction and its operations      *)

NoCall == [op |-> "none"]

\* ExchangeBase._instance is None
NoInstance == "none"

\* no TradeExecutor has been constructed
NoExecutor == [none |-> TRUE]

\* no task is inside load_model_data
NoLoad == << >>

NoResult == [action |-> "none"]

Init ==
    /\ position = NoPosition
    /\ capital \in Balances
    /\ pattern_stats = EmptyDict
    /\ volatility_data = EmptyDict
    /\ risk_level = NoRiskLevel
    /\ now = 0
    /\ trade_history = << >>
    /\ orders = [buy |-> 0, sell |-> 0]
    /\ args = NoCall
    /\ result = NoResult
    /\ flag = NoInstance
    /\ executor = NoExecutor
    /\ loader = NoLoad

ExecuteTrade ==
    /\ CanOpen
    /\ \E price \in Prices, day \in Days, price_history \in Histories :
          execute_trade(price, day, price_history)

UpdateTrade == \E current_price \in Prices : update_trade(current_price)

ClosePosition ==
    \E price \in Prices : close_position(price, "manual")

Next ==
    \/ LoadModelData
    \/ TradingLoopStep
    \/ ExecuteTrade
    \/ UpdateTrade
    \/ ClosePosition
    \/ Tick

Spec == Init /\ [][Next]_vars

-----------------------------------------------------------------------------
(* The decision function on its own: should_trade applied to model data,    *)
(* risk levels, price histories and day names drawn from bounded sets.      *)

DecisionRowSets == {<< >>, RowsTest, RowsEdge, RowsMixed}

DecisionModels ==
    {load_model_data(rows, TRUE) : rows \in DecisionRowSets}
        \cup {[stats |-> EmptyDict, vol |-> EmptyDict]}

RiskLevels == {NoRiskLevel, "low", "medium", "high"}

DecisionDays == EnglishDays \cup ChineseDays

DecisionHistories ==
    {<< >>, <<100>>, <<100, 105>>, <<105, 100>>, <<100, 100>>,
     <<100, 105, 103>>, <<105, 100, 103>>,
     <<100, 105, 103, 101>>, <<105, 100, 101, 103>>, <<100, 105, 103, 101, 106>>}

InitDecision ==
    /\ position = NoPosition
    /\ capital \in Balances
    /\ \E m \in DecisionModels : pattern_stats = m.stats /\ volatility_data = m.vol
    /\ risk_level \in RiskLevels
    /\ now = 0
    /\ trade_history = << >>
    /\ orders = [buy |-> 0, sell |-> 0]
    /\ args = NoCall
    /\ result = NoResult
    /\ flag = NoInstance
    /\ executor = NoExecutor
    /\ loader = NoLoad

ShouldTrade ==
    \E price_history \in DecisionHistories, day \in DecisionDays :
        ShouldTradeCall(price_history, day)

NextDecision == ShouldTrade

SpecDecision == InitDecision /\ [][NextDecision]_vars

-----------------------------------------------------------------------------
(* The life of one position: update_position, check_exit_signals,           *)
(* update_trade and close_position applied to a position drawn from a       *)
(* bounded set, until it is closed.                                         *)

LifePositions ==
    {NewPosition(direction, P(10000), P(50), stop_loss, take_profit, 0,
                 "continuous_rise", "Monday") :
        direction \in {"long", "short"},
        stop_loss \in {P(9800), P(10200)},
        take_profit \in {P(10300), P(10100)}}

LifePrices ==
    {P(9700), P(9800), P(10000), P(10100), P(10150), P(10200), P(10250),
     P(10300), P(10400)}

LifeSteps == {12}

MaxWait == 36

InitLifecycle ==
    /\ position \in LifePositions
    /\ capital \in Balances
    /\ pattern_stats = EmptyDict
    /\ volatility_data = EmptyDict
    /\ risk_level = NoRiskLevel
    /\ now = 0
    /\ trade_history = << >>
    /\ orders = [buy |-> 0, sell |-> 0]
    /\ args = NoCall
    /\ result = NoResult
    /\ flag = NoInstance
    /\ executor = NoExecutor
    /\ loader = NoLoad

UpdatePosition ==
    /\ IsOpen(position)
    /\ \E current_price \in LifePrices : UpdatePositionCall(current_price)

CheckExit ==
    /\ IsOpen(position)
    /\ \E current_price \in LifePrices : CheckExitCall(current_price)

LifeUpdateTrade ==
    /\ IsOpen(position)
    /\ \E current_price \in LifePrices : update_trade(current_price)

LifeClosePosition ==
    /\ IsOpen(position)
    /\ \E price \in LifePrices : close_position(price, "manual")

Wait ==
    /\ IsOpen(position)
    /\ \E dt \in LifeSteps :
          /\ now + dt <= MaxWait
          /\ now' = now + dt
          /\ UNCHANGED <<position, capital, pattern_stats, volatility_data, risk_level,
                         trade_history, orders, args, result, flag, executor,
                       loader>>

NextLifecycle ==
    \/ UpdatePosition
    \/ CheckExit
    \/ LifeUpdateTrade
    \/ LifeClosePosition
    \/ Wait

SpecLifecycle == InitLifecycle /\ [][NextLifecycle]_vars

-----------------------------------------------------------------------------
(* The trading loop on its own, with the scheduler's reload and the clock:  *)
(* run_trading_loop is the only caller of execute_trade and update_trade.   *)
(* A position is opened only while the clock of the model can still pass    *)
(* the time limit of that position.                                         *)

LoopRound ==
    /\ IsOpen(position) \/ now + TimeLimitHours < MaxTime
    /\ TradingLoopStep

\* a round of the loop that closes the position: an exit test of update_trade
\* matches the fetched price and the closing order is accepted
LoopClose ==
    /\ IsOpen(position)
    /\ \E current_price \in Prices :
          LET exit_signal == check_exit_signals(position, current_price, now)
          IN  /\ exit_signal.action = "close_position"
              /\ args' = [op |-> "update_trade", price |-> current_price]
              /\ UNCHANGED <<flag, executor, loader>>
              /\ UNCHANGED <<risk_level, now>>
              /\ CloseAccepted(current_price, exit_signal.reason)

NextLoop ==
    \/ LoadModelData
    \/ LoopRound
    \/ Tick

\* time passes, and a closing order that is placed again and again is accepted
FairLoop == WF_vars(Tick) /\ WF_vars(LoopClose)

SpecLoop == Init /\ [][NextLoop]_vars /\ FairLoop

-----------------------------------------------------------------------------
(* The sizer on its own: calculate_position_size applied to statistics      *)
(* tables of one entry, to risk levels and to (pattern, day) pairs drawn    *)
(* from bounded sets.                                                       *)

SizerWinRates == {Zero, Rat(1, 2), Rat(55, 100), Rat(6, 10), Rat(9, 10), One}

SizerReturnRates ==
    {Rat(-5, 1000), Zero, Rat(1, 10000), Rat(5, 1000), Rat(1, 100), Rat(1, 2), P(10)}

SizerTable(win_rate, return_rate) ==
    DictSet(EmptyDict, "ZhouRi",
            DictSet(EmptyDict, "continuous_rise", StatsEntry(win_rate, return_rate)))

SizerTables ==
    {SizerTable(w, r) : w \in SizerWinRates, r \in SizerReturnRates} \cup {EmptyDict}

\* a RISK_LEVEL that is no key of risk_multiplier
SizerRiskLevels == RiskLevels \cup {"extreme"}

InitSizer ==
    /\ position = NoPosition
    /\ capital \in Balances
    /\ pattern_stats \in SizerTables
    /\ volatility_data = EmptyDict
    /\ risk_level \in SizerRiskLevels
    /\ now = 0
    /\ trade_history = << >>
    /\ orders = [buy |-> 0, sell |-> 0]
    /\ args = NoCall
    /\ result = NoResult
    /\ flag = NoInstance
    /\ executor = NoExecutor
    /\ loader = NoLoad

CalculatePositionSize ==
    \E pattern \in {"continuous_rise", "continuous_fall"}, day \in {"ZhouRi", "Zhou1"} :
        LET size == calculate_position_size(pattern_stats, risk_level, pattern, day)
        IN  /\ args' = [op |-> "calculate_position_size", pattern |-> pattern,
                        day |-> day]
            /\ UNCHANGED <<flag, executor, loader>>
            /\ result' = IF size = KeyError THEN Raised ELSE [size |-> size]
            /\ UNCHANGED <<position, capital, pattern_stats, volatility_data, risk_level,
                           now, trade_history, orders>>

NextSizer == CalculatePositionSize

SpecSizer == InitSizer /\ [][NextSizer]_vars

-----------------------------------------------------------------------------
(* The stop-loss planner on its own: set_stop_loss applied to volatility    *)
(* tables, prices and day names drawn from bounded sets.                    *)

StopVolatilities ==
    {Zero, Rat(1, 100), Rat(2, 100), Rat(225, 10000), Rat(25, 1000), Rat(26, 1000),
     Rat(3, 100)}

\* tables of one day, keyed by the English or by the Chinese name of Monday
StopTables ==
    {DictSet(EmptyDict, day, v) : day \in {"Monday", "Zhou1"}, v \in StopVolatilities}
        \cup {EmptyDict, default_volatility_data}

StopDays == {"Monday", "Zhou1", "Tuesday"}

StopPrices == {P(9600), P(10000), P(10400)}

InitStop ==
    /\ position = NoPosition
    /\ capital \in Balances
    /\ pattern_stats = EmptyDict
    /\ volatility_data \in StopTables
    /\ risk_level = NoRiskLevel
    /\ now = 0
    /\ trade_history = << >>
    /\ orders = [buy |-> 0, sell |-> 0]
    /\ args = NoCall
    /\ result = NoResult
    /\ flag = NoInstance
    /\ executor = NoExecutor
    /\ loader = NoLoad

SetStopLoss ==
    \E price \in StopPrices, day \in StopDays :
        /\ args' = [op |-> "set_stop_loss", price |-> price, day |-> day]
        /\ UNCHANGED <<flag, executor, loader>>
        /\ result' = [stop_loss |-> set_stop_loss(volatility_data, price, day)]
        /\ UNCHANGED <<position, capital, pattern_stats, volatility_data, risk_level,
                       now, trade_history, orders>>

NextStop == SetStopLoss

SpecStop == InitStop /\ [][NextStop]_vars

-----------------------------------------------------------------------------
(* The opening of a position on its own: execute_trade applied to model     *)
(* data, prices, day names and price histories drawn from bounded sets.     *)

EntryModels ==
    {load_model_data(rows, TRUE) : rows \in {<< >>, RowsTest, RowsEdge, RowsMixed, RowsFlat}}

InitEntry ==
    /\ position = NoPosition
    /\ capital \in Balances
    /\ \E m \in EntryModels : pattern_stats = m.stats /\ volatility_data = m.vol
    /\ risk_level \in {NoRiskLevel, "medium"}
    /\ now = 0
    /\ trade_history = << >>
    /\ orders = [buy |-> 0, sell |-> 0]
    /\ args = NoCall
    /\ result = NoResult
    /\ flag = NoInstance
    /\ executor = NoExecutor
    /\ loader = NoLoad

NextEntry == ExecuteTrade

SpecEntry == InitEntry /\ [][NextEntry]_vars

-----------------------------------------------------------------------------
(* The classifier on its own: analyze_pattern applied to every price series *)
(* of at most MaxPoints points over three price levels.                     *)

MaxPoints == 5

ClassifyLevels == {99, 100, 101}

ClassifyHistories == UNION {[1..n -> ClassifyLevels] : n \in 0..MaxPoints}

InitClassify ==
    /\ position = NoPosition
    /\ capital \in Balances
    /\ pattern_stats = EmptyDict
    /\ volatility_data = EmptyDict
    /\ risk_level = NoRiskLevel
    /\ now = 0
    /\ trade_history = << >>
    /\ orders = [buy |-> 0, sell |-> 0]
    /\ args = NoCall
    /\ result = NoResult
    /\ flag = NoInstance
    /\ executor = NoExecutor
    /\ loader = NoLoad

AnalyzePattern ==
    \E price_history \in ClassifyHistories :
        /\ args' = [op |-> "analyze_pattern", price_history |-> price_history]
        /\ UNCHANGED <<flag, executor, loader>>
        /\ result' = [pattern |-> analyze_pattern(price_history)]
        /\ UNCHANGED <<position, capital, pattern_stats, volatility_data, risk_level,
                       now, trade_history, orders>>

NextClassify == AnalyzePattern

SpecClassify == InitClassify /\ [][NextClassify]_vars

-----------------------------------------------------------------------------
(* ExchangeBase (src/exchange/base.py): one instance for the process, whose *)
(* __init__ runs again on every ExchangeBase(...) call.                     *)

FlagOf(is_simulated) == IF is_simulated THEN "1" ELSE "0"

\* ExchangeBase(is_simulated): __new__ returns the instance, __init__ sets its flag
ExchangeBase(is_simulated) == flag' = FlagOf(is_simulated)

-----------------------------------------------------------------------------
(* TradeStrategyDAO.get_active_position (src/database/dao.py): the account  *)
(* query of the exchange, the scan of its positions and the fallback to the *)
(* active_positions table.  A field of a response is the text of a number,  *)
(* Num(i), or a text float() rejects, NotANumber.                           *)

Num(i) == [float |-> i]

NotANumber == [text |-> ""]

IsNumber(v) == "float" \in DOMAIN v

None == [none |-> TRUE]

\* the exception a failing database session raises
DbError == [raised |-> "DbError"]

\* one element of positions['data']
ApiPosition(instId, pos, margin) ==
    [instId |-> instId, pos |-> pos, avgPx |-> Num(50000), upl |-> Num(150),
     margin |-> margin, markPx |-> Num(51500)]

\* one row of active_positions
DbRow(instrument_id, entry_time, pattern) ==
    [direction |-> "long", entry_price |-> 49000, size |-> 2, stop_loss |-> 47000,
     take_profit |-> 51000, entry_time |-> entry_time, pattern |-> pattern,
     day_of_week |-> "ZhouRi", instrument_id |-> instrument_id]

\* ORDER BY entry_time DESC LIMIT 1
LatestRow(rows) == CHOOSE r \in rows : \A q \in rows : q.entry_time <= r.entry_time

_get_active_position_from_db(table, db_ok) ==
    IF ~db_ok THEN DbError
    ELSE IF table = {} THEN None
    ELSE LET row == LatestRow(table)
         IN  [direction |-> row.direction, entry_price |-> row.entry_price,
              size |-> row.size, stop_loss |-> row.stop_loss,
              take_profit |-> row.take_profit, entry_time |-> row.entry_time,
              pattern |-> row.pattern, day |-> row.day_of_week]

\* the strategy fields of an instrument; a failing query is answered None
_get_position_strategy_info(table, db_ok, instrument_id) ==
    LET rows == {r \in table : r.instrument_id = instrument_id}
    IN  IF ~db_ok \/ rows = {} THEN None
        ELSE LET strategy_data == LatestRow(rows)
             IN  [stop_loss |-> strategy_data.stop_loss,
                  take_profit |-> strategy_data.take_profit,
                  entry_time |-> strategy_data.entry_time,
                  pattern |-> strategy_data.pattern,
                  day |-> strategy_data.day_of_week]

\* the dict returned for a position whose fields all convert
LivePosition(item, strategy_info) ==
    LET pos_size == item.pos.float
        known == strategy_info # None
    IN  [direction |-> IF pos_size > 0 THEN "long" ELSE "short",
         entry_price |-> item.avgPx.float,
         size |-> Abs(pos_size),
         stop_loss |-> IF known THEN strategy_info.stop_loss ELSE 0,
         take_profit |-> IF known THEN strategy_info.take_profit ELSE 0,
         entry_time |-> IF known THEN strategy_info.entry_time ELSE None,
         pattern |-> IF known THEN strategy_info.pattern ELSE "unknown",
         day |-> IF known THEN strategy_info.day ELSE "unknown",
         instrument_id |-> item.instId,
         unrealized_pnl |-> item.upl.float,
         margin |-> item.margin.float,
         mark_price |-> item.markPx.float]

ValueError == [raised |-> "ValueError"]

\* the for loop over positions['data'], from element i: the value returned or the
\* exception raised inside the try block, and the queries made on the way
RECURSIVE ScanPositions(_, _, _, _)
ScanPositions(data, i, table, db_ok) ==
    IF i > Len(data) THEN [value |-> None, calls |-> << >>]
    ELSE LET item == data[i]
         IN  IF ~IsNumber(item.pos) THEN [value |-> ValueError, calls |-> << >>]
             ELSE IF item.pos.float = 0 THEN ScanPositions(data, i + 1, table, db_ok)
             ELSE IF \A f \in {"avgPx", "upl", "margin", "markPx"} : IsNumber(item[f])
             THEN [value |-> LivePosition(item,
                                 _get_position_strategy_info(table, db_ok, item.instId)),
                   calls |-> <<"_get_position_strategy_info">>]
             ELSE [value |-> ValueError, calls |-> <<"_get_position_strategy_info">>]

\* the exception get_account_info raises
ApiError == [raised |-> "ApiError"]

\* account is ApiError or holds the value of account_info['positions']['data']
get_active_position(account, table, db_ok) ==
    LET scanned == IF account = ApiError THEN [value |-> ApiError, calls |-> << >>]
                   ELSE ScanPositions(account.data, 1, table, db_ok)
    IN  IF scanned.value \in {ApiError, ValueError}
        THEN [value |-> _get_active_position_from_db(table, db_ok),
              calls |-> <<"get_account_info">> \o scanned.calls
                            \o <<"_get_active_position_from_db">>]
        ELSE [value |-> scanned.value,
              calls |-> <<"get_account_info">> \o scanned.calls]

ApiPositions ==
    {ApiPosition("BTC-USDT-SWAP", pos, margin) :
        pos \in {Num(0), Num(1), Num(-2)}, margin \in {Num(5000), NotANumber}}
      \cup {ApiPosition("ETH-USDT-SWAP", Num(3), Num(1500))}

AccountData ==
    {<< >>} \cup {<<p>> : p \in ApiPositions}
        \cup {<<p, q>> : p \in ApiPositions, q \in ApiPositions}

Accounts == {ApiError} \cup {[data |-> d] : d \in AccountData}

DbTables ==
    {{}, {DbRow("BTC-USDT-SWAP", 9, "continuous_fall")},
     {DbRow("BTC-USDT-SWAP", 9, "continuous_fall"),
      DbRow("ETH-USDT-SWAP", 12, "rise_then_fall")},
     {DbRow("BTC-USDT-SWAP", 15, "continuous_rise"),
      DbRow("ETH-USDT-SWAP", 12, "rise_then_fall")}}

InitDao ==
    /\ position = NoPosition
    /\ capital \in Balances
    /\ pattern_stats = EmptyDict
    /\ volatility_data = EmptyDict
    /\ risk_level = NoRiskLevel
    /\ now = 0
    /\ trade_history = << >>
    /\ orders = [buy |-> 0, sell |-> 0]
    /\ args = NoCall
    /\ result = NoResult
    /\ flag = NoInstance
    /\ executor = NoExecutor
    /\ loader = NoLoad

GetActivePosition ==
    \E account \in Accounts, table \in DbTables, db_ok \in BOOLEAN :
        /\ args' = [op |-> "get_active_position", account |-> account,
                    table |-> table, db_ok |-> db_ok]
        /\ ExchangeBase(FALSE)
        /\ UNCHANGED <<executor, loader>>
        /\ result' = get_active_position(account, table, db_ok)
        /\ UNCHANGED <<position, capital, pattern_stats, volatility_data, risk_level,
                       now, trade_history, orders>>

SpecDao == InitDao /\ [][GetActivePosition]_vars

-----------------------------------------------------------------------------
(* TradeExecutor (src/trading/trade_executor.py): its construction, its     *)
(* swap orders and the other constructions of ExchangeBase in the process.  *)

\* TradeExecutor(config, dao)
TradeExecutorInit ==
    \E is_simulated \in BOOLEAN :
        /\ executor' = [is_simulated |-> is_simulated]
        /\ ExchangeBase(is_simulated)
        /\ args' = [op |-> "TradeExecutor", is_simulated |-> is_simulated]
        /\ result' = NoResult
        /\ UNCHANGED <<position, capital, pattern_stats, volatility_data, risk_level,
                       now, trade_history, orders, loader>>

\* ExchangeBase() of BitcoinTradingSystem.__init__ and ExchangeBase(is_simulated)
\* of any other component of the process
ConstructExchangeBase ==
    \E is_simulated \in BOOLEAN :
        /\ ExchangeBase(is_simulated)
        /\ args' = [op |-> "ExchangeBase", is_simulated |-> is_simulated]
        /\ result' = NoResult
        /\ UNCHANGED <<position, capital, pattern_stats, volatility_data, risk_level,
                       now, trade_history, orders, executor, loader>>

\* the answer of execute_swap_order: TradeAPI is built with the flag the instance
\* has at the time of the order
SwapOrderResult(sent_flag, order_ok) ==
    [success |-> order_ok, order_type |-> "swap", sent_flag |-> sent_flag]

ExecuteSwapOrder ==
    /\ executor # NoExecutor
    /\ \E side \in {"buy", "sell"}, order_ok \in BOOLEAN :
          /\ args' = [op |-> "execute_swap_order", side |-> side]
          /\ result' = SwapOrderResult(flag, order_ok)
          /\ UNCHANGED <<position, capital, pattern_stats, volatility_data, risk_level,
                         now, trade_history, orders, flag, executor, loader>>

SwapAccounts ==
    {ApiError, [data |-> << >>]}
        \cup {[data |-> <<ApiPosition("BTC-USDT-SWAP", pos, margin)>>] :
                  pos \in {Num(1), Num(-2)}, margin \in {Num(5000), NotANumber}}

\* close_swap_position: the position is asked from the DAO, whose
\* get_active_position calls ExchangeBase(), and the closing order is sent
CloseSwapPosition ==
    /\ executor # NoExecutor
    /\ \E account \in SwapAccounts, table \in DbTables, db_ok \in BOOLEAN,
          order_ok \in BOOLEAN :
          LET found == get_active_position(account, table, db_ok).value
          IN  /\ args' = [op |-> "close_swap_position", account |-> account,
                          table |-> table, db_ok |-> db_ok]
              /\ ExchangeBase(FALSE)
              /\ result' =
                    IF found = DbError
                    THEN [action |-> "close_swap_position_failed", success |-> FALSE,
                          error |-> "exception"]
                    ELSE IF found = None
                    THEN [action |-> "close_swap_position_failed", success |-> FALSE,
                          error |-> "no_active_position"]
                    ELSE LET order_result == SwapOrderResult(flag', order_ok)
                         IN  [action |-> IF order_ok THEN "close_swap_position"
                                         ELSE "close_swap_position_failed",
                              success |-> order_ok,
                              sent_flag |-> order_result.sent_flag]
              /\ UNCHANGED <<position, capital, pattern_stats, volatility_data,
                             risk_level, now, trade_history, orders, executor, loader>>

NextExchange ==
    \/ TradeExecutorInit
    \/ ConstructExchangeBase
    \/ ExecuteSwapOrder
    \/ CloseSwapPosition

SpecExchange == Init /\ [][NextExchange]_vars

-----------------------------------------------------------------------------
(* The reload of the model data next to the trading loop.  The tasks of     *)
(* run() share one event loop: a task runs until it awaits.  A task inside  *)
(* load_model_data awaits the refresh statements and the query of           *)
(* price_patterns; the rebuild of the two dictionaries that follows has no  *)
(* await.  The task "scheduled" is run_scheduled_tasks; the task            *)
(* "recording" is the trading loop inside record_trade after a close.       *)

LoaderTasks == {"scheduled", "recording"}

Idle == [pc |-> "idle", rows |-> << >>, i |-> 0]

NeverInsideRebuild(task_state) == TRUE

\* the task is at an await, where the event loop may run another task
AtSuspensionPoint(task_state) == task_state.pc # "rebuild"

EventLoopFree == \A t \in DOMAIN loader : AtSuspensionPoint(loader[t])

InitReload ==
    /\ position = NoPosition
    /\ capital \in Balances
    /\ pattern_stats = EmptyDict
    /\ volatility_data = EmptyDict
    /\ risk_level = NoRiskLevel
    /\ now = 0
    /\ trade_history = << >>
    /\ orders = [buy |-> 0, sell |-> 0]
    /\ args = NoCall
    /\ result = NoResult
    /\ flag = NoInstance
    /\ executor = NoExecutor
    /\ loader = [t \in LoaderTasks |-> Idle]

\* refresh_model_data is entered: await session.execute(...)
BeginRefresh ==
    \E t \in LoaderTasks :
        /\ EventLoopFree
        /\ loader[t].pc = "idle"
        /\ loader' = [loader EXCEPT ![t].pc = "refresh"]
        /\ UNCHANGED <<position, capital, pattern_stats, volatility_data, risk_level,
                       now, trade_history, orders, args, result, flag, executor>>

\* the refresh statements are committed and load_model_data awaits the query of
\* price_patterns, or they raise and refresh_model_data is left
RefreshReturns ==
    \E t \in LoaderTasks, refresh_ok \in BOOLEAN :
        /\ EventLoopFree
        /\ loader[t].pc = "refresh"
        /\ loader' = [loader EXCEPT ![t].pc = IF refresh_ok THEN "query" ELSE "idle"]
        /\ UNCHANGED <<position, capital, pattern_stats, volatility_data, risk_level,
                       now, trade_history, orders, args, result, flag, executor>>

\* the query returns: no rows, and the default data is set; or rows, the two
\* dictionaries are emptied and the for loop is entered
QueryReturns ==
    \E t \in LoaderTasks, pattern_data \in RowSets :
        /\ EventLoopFree
        /\ loader[t].pc = "query"
        /\ IF pattern_data = << >>
           THEN /\ pattern_stats' = DefaultModel.stats
                /\ volatility_data' = DefaultModel.vol
                /\ loader' = [loader EXCEPT ![t] = Idle]
           ELSE /\ pattern_stats' = EmptyDict
                /\ volatility_data' = EmptyDict
                /\ loader' = [loader EXCEPT ![t] = [pc |-> "rebuild",
                                                     rows |-> pattern_data, i |-> 1]]
        /\ UNCHANGED <<position, capital, risk_level, now, trade_history, orders,
                       args, result, flag, executor>>

\* one round of the for loop; a row whose conversion raises sets the default data
RebuildRow ==
    \E t \in LoaderTasks, row_ok \in BOOLEAN :
        /\ loader[t].pc = "rebuild"
        /\ IF row_ok
           THEN LET model == LoadRow([stats |-> pattern_stats, vol |-> volatility_data],
                                     loader[t].rows[loader[t].i])
                IN  /\ pattern_stats' = model.stats
                    /\ volatility_data' = model.vol
                    /\ loader' = [loader EXCEPT ![t] =
                                     IF loader[t].i = Len(loader[t].rows) THEN Idle
                                     ELSE [@ EXCEPT !.i = @ + 1]]
           ELSE /\ pattern_stats' = DefaultModel.stats
                /\ volatility_data' = DefaultModel.vol
                /\ loader' = [loader EXCEPT ![t] = Idle]
        /\ UNCHANGED <<position, capital, risk_level, now, trade_history, orders,
                       args, result, flag, executor>>

\* should_trade of a round of the trading loop, which is not inside record_trade;
\* the call is recorded with the table it reads and the positions of the tasks
LoopDecision ==
    /\ EventLoopFree
    /\ loader["recording"].pc = "idle"
    /\ \E price_history \in Histories, day \in Days :
          LET decision == should_trade(pattern_stats, risk_level, price_history, day)
          IN  /\ args' = [op |-> "should_trade", price_history |-> price_history,
                          day |-> day, pattern_stats |-> pattern_stats,
                          loader |-> loader]
              /\ result' = IF decision = KeyError THEN Raised ELSE decision
              /\ UNCHANGED <<position, capital, pattern_stats, volatility_data,
                             risk_level, now, trade_history, orders, flag, executor,
                             loader>>

NextReload ==
    \/ BeginRefresh
    \/ RefreshReturns
    \/ QueryReturns
    \/ RebuildRow
    \/ LoopDecision

SpecReload == InitReload /\ [][NextReload]_vars

-----------------------------------------------------------------------------
(* BitcoinTradingSystem.get_current_price: the retry loop over the ticker   *)
(* query.  The answers the exchange would give to successive queries are    *)
(* the input; the call returns its value, the number of queries it made and *)
(* the delays it slept.                                                     *)

max_retries == 3

retry_delay == 2

\* get_ticker raises
TickerError == [raised |-> "TickerError"]

\* a response without data
EmptyTicker == [data |-> << >>]

\* a response whose data[0] has the field last, or lacks it (last is None)
Ticker(last) == [data |-> <<[last |-> last]>>]

\* the body of the try block answers a price
HasPrice(ticker) ==
    /\ ticker # TickerError
    /\ ticker.data # << >>
    /\ IsNumber(ticker.data[1].last)

NextDelayConstant(delay) == delay

\* retry_delay *= 2
NextDelay(delay) == delay * 2

\* the for loop from one attempt on
RECURSIVE Attempts(_, _, _, _)
Attempts(tickers, attempt, delay, sleeps) ==
    IF HasPrice(tickers[attempt + 1])
    THEN [value |-> tickers[attempt + 1].data[1].last.float,
          queries |-> attempt + 1, sleeps |-> sleeps]
    ELSE IF attempt < max_retries - 1
    THEN Attempts(tickers, attempt + 1, NextDelay(delay), Append(sleeps, delay))
    ELSE [value |-> Raised, queries |-> attempt + 1, sleeps |-> sleeps]

get_current_price(tickers) == Attempts(tickers, 0, retry_delay, << >>)

TickerOutcomes ==
    {TickerError, EmptyTicker, Ticker(None), Ticker(NotANumber), Ticker(Num(9600)),
     Ticker(Num(10400))}

\* one answer more than the loop can ask for
TickerSequences == [1..max_retries + 1 -> TickerOutcomes]

GetCurrentPrice ==
    \E tickers \in TickerSequences :
        /\ args' = [op |-> "get_current_price", tickers |-> tickers]
        /\ result' = get_current_price(tickers)
        /\ UNCHANGED <<position, capital, pattern_stats, volatility_data, risk_level,
                       now, trade_history, orders, flag, executor, loader>>

SpecPrice == Init /\ [][GetCurrentPrice]_vars

-----------------------------------------------------------------------------
(* The claims.  The day arithmetic of the claims is stated on day numbers,  *)
(* Monday = 0 .. Sunday = 6, independently of the dictionaries above.       *)

DayNumber(day) ==
    CASE day \in {"Monday", "Zhou1"} -> 0
      [] day \in {"Tuesday", "Zhou2"} -> 1
      [] day \in {"Wednesday", "Zhou3"} -> 2
      [] day \in {"Thursday", "Zhou4"} -> 3
      [] day \in {"Friday", "Zhou5"} -> 4
      [] day \in {"Saturday", "Zhou6"} -> 5
      [] day \in {"Sunday", "ZhouRi"} -> 6

StatsKey(number) == <<"Zhou1", "Zhou2", "Zhou3", "Zhou4", "Zhou5", "Zhou6", "ZhouRi">>[number + 1]

\* the key of the cyclic predecessor of a day
PredecessorKey(day) == StatsKey((DayNumber(day) + 6) % 7)

DenyList == {<<StatsKey(4), "continuous_rise">>, <<StatsKey(5), "fall_then_rise">>}

Refusal == [trade |-> FALSE, direction |-> "none", size |-> Int2Rat(0)]

EntryExists(day_key, pattern) ==
    day_key \in DOMAIN pattern_stats /\ pattern \in DOMAIN pattern_stats[day_key]

C2_DenyListRefused ==
    (/\ args.op = "should_trade"
     /\ <<PredecessorKey(args.day), analyze_pattern(args.price_history)>> \in DenyList)
        => result = Refusal

\* a refused deny-listed pair whose entry has a win rate above 0.55
C2_Witness ==
    /\ args.op = "should_trade"
    /\ \E pair \in DenyList :
          /\ pair = <<PredecessorKey(args.day), analyze_pattern(args.price_history)>>
          /\ EntryExists(pair[1], pair[2])
          /\ RLt(Rat(55, 100), pattern_stats[pair[1]][pair[2]].win_rate)
    /\ result = Refusal

\* C3: no position is opened on a statistics entry whose return rate is <= 0.
C3_NoOpenOnNonPositiveReturn ==
    result.action = "open_trade" =>
        LET key == PredecessorKey(result.details.day)
            pattern == result.details.pattern
        IN  EntryExists(key, pattern) => pattern_stats[key][pattern].return_rate.n > 0

\* C4: an approval is long with a size fraction strictly greater than 0.
C4_ApprovalLongAndPositive ==
    (args.op = "should_trade" /\ result.trade)
        => result.direction = "long" /\ result.size.n > 0

\* C5: an execute_trade issued while a position is open leaves that position and
\* the count of opening orders as they were.
C5_OpenRequestKeepsPosition ==
    [][(IsOpen(position) /\ args'.op = "execute_trade")
          => (position' = position /\ orders'.buy = orders.buy)]_vars

\* comparisons of the claims, by cross-multiplication
Less(a, b) == a.n * (b.d \div GCD(a.d, b.d)) < b.n * (a.d \div GCD(a.d, b.d))

AtMost(a, b) == a.n * (b.d \div GCD(a.d, b.d)) <= b.n * (a.d \div GCD(a.d, b.d))

Larger(a, b) == IF Less(a, b) THEN b ELSE a

\* the candidate stop of the claim: bands on 100 * (price - entry) against entry
ClaimedCandidate(p, price) ==
    LET gain == [n |-> 100 * (price.n * p.entry_price.d - p.entry_price.n * price.d),
                 d |-> p.entry_price.n * price.d]
    IN  IF Less(Int2Rat(3), gain) THEN Rat(p.entry_price.n * 101, p.entry_price.d * 100)
        ELSE IF Less(Int2Rat(2), gain)
        THEN Rat(p.entry_price.n * 1005, p.entry_price.d * 1000)
        ELSE IF Less(Int2Rat(1), gain) THEN p.entry_price
        ELSE p.stop_loss

\* C6: the stop-loss of an open position never decreases, whatever the prices of
\* the update calls.
C6_StopLossNeverDecreases ==
    [][(IsOpen(position) /\ IsOpen(position'))
          => AtMost(position.stop_loss, position'.stop_loss)]_vars

\* an update whose band would place the stop below the stop already reached
C6_Witness ==
    /\ args.op = "update_position"
    /\ Less(ClaimedCandidate(args.position, args.price), args.position.stop_loss)
    /\ position.stop_loss = args.position.stop_loss

\* C7: check_exit answers stop_loss if price <= stop_loss, else take_profit if
\* price >= take_profit, else time_limit if held more than 24 hours, else hold.
C7_ExitOrder ==
    args.op = "check_exit_signals" =>
        LET p == args.position
        IN  result =
              IF AtMost(args.price, p.stop_loss)
              THEN [action |-> "close_position", reason |-> "stop_loss"]
              ELSE IF AtMost(p.take_profit, args.price)
              THEN [action |-> "close_position", reason |-> "take_profit"]
              ELSE IF args.clock - p.entry_time > 24
              THEN [action |-> "close_position", reason |-> "time_limit"]
              ELSE [action |-> "hold_position"]

\* a price at or below the stop and at or above the target: the reason is stop_loss
C7_Witness ==
    /\ args.op = "check_exit_signals"
    /\ Less(args.position.take_profit, args.position.stop_loss)
    /\ AtMost(args.price, args.position.stop_loss)
    /\ AtMost(args.position.take_profit, args.price)
    /\ result = [action |-> "close_position", reason |-> "stop_loss"]

\* C8: update changes only stop_loss, to the larger of the band's candidate and the
\* current stop_loss; the other seven fields are unchanged.
C8_UpdateSetsOnlyStopLoss ==
    args.op = "update_position" =>
        LET p == args.position
            stop == Larger(ClaimedCandidate(p, args.price), p.stop_loss)
        IN  /\ position = [p EXCEPT !.stop_loss = stop]
            /\ result.position = position
            /\ result.new_stop_loss = stop

\* a profit of exactly 2% falls in the 1% band: the stop moves to the entry price
C8_Witness ==
    /\ args.op = "update_position"
    /\ args.price.n * 100 = args.position.entry_price.n * 102 * args.price.d
    /\ Less(args.position.stop_loss, args.position.entry_price)
    /\ position.stop_loss = args.position.entry_price

\* C9: the result of a close has profit_pct = profit / entry_price and
\* profit_amount = profit * size, where profit is exit - entry for a long position
\* and entry - exit for a short one.
C9_ProfitOfClose ==
    [][(IsOpen(position) /\ ~IsOpen(position'))
          => LET r == result'.details
                 len == [n |-> r.exit_price.n * position.entry_price.d
                                  - position.entry_price.n * r.exit_price.d,
                         d |-> r.exit_price.d * position.entry_price.d]
                 profit == IF position.direction = "long" THEN len
                           ELSE [n |-> -len.n, d |-> len.d]
             IN  /\ result'.action = "close_position"
                 /\ r.exit_price = args'.price
                 /\ r.entry_price = position.entry_price
                 /\ r.profit_pct = Rat(profit.n * position.entry_price.d,
                                       profit.d * position.entry_price.n)
                 /\ r.profit_amount = Rat(profit.n * position.size.n,
                                          profit.d * position.size.d)]_vars

\* a close below the entry price with a positive profit_pct: a short position
C9_Witness ==
    /\ args.op = "close_position"
    /\ result.action = "close_position"
    /\ Less(result.details.exit_price, result.details.entry_price)
    /\ result.details.profit_pct.n > 0
    /\ result.details.profit_amount.n > 0

\* C10: a successful close discards the position and hands exactly its TradeResult
\* to the repository; nothing is handed over without a close; update and close on
\* no position report no_position and change nothing.
C10_CloseRecordsOnce ==
    [][/\ orders'.sell # orders.sell =>
            /\ orders'.sell = orders.sell + 1
            /\ IsOpen(position)
            /\ position' = NoPosition
            /\ result'.action = "close_position"
            /\ trade_history' = Append(trade_history, result'.details)
            /\ result'.details.entry_time = position.entry_time
            /\ result'.details.entry_price = position.entry_price
            /\ result'.details.pattern_type = position.pattern
            /\ result'.details.day_of_week = position.day
            /\ result'.details.exit_price = args'.price
       /\ trade_history' # trade_history => orders'.sell = orders.sell + 1
       /\ (~IsOpen(position) /\ args'.op \in {"update_trade", "close_position"}
              /\ now' = now)
            => /\ result'.action = "no_position"
               /\ UNCHANGED <<position, capital, trade_history, orders,
                              pattern_stats, volatility_data>>]_vars

\* an exit fired in update_trade, the position is gone and its result is the one
\* record of the repository
C10_Witness ==
    /\ args.op = "update_trade"
    /\ result.action = "close_position"
    /\ position = NoPosition
    /\ trade_history = <<result.details>>
    /\ orders.sell = 1

\* C11: an update tick more than 24 hours after the entry whose closing order is
\* accepted closes the position, with the reason of the first matching exit test;
\* and under the fair loop every open position is eventually closed.
C11_HeldPastLimitIsClosed ==
    /\ [][(IsOpen(position) /\ now - position.entry_time > 24
              /\ args'.op = "update_trade" /\ result'.action # "close_failed")
            => /\ position' = NoPosition
               /\ result'.action = "close_position"
               /\ result'.details.exit_reason =
                     IF AtMost(args'.price, position.stop_loss) THEN "stop_loss"
                     ELSE IF AtMost(position.take_profit, args'.price) THEN "take_profit"
                     ELSE "time_limit"]_vars
    /\ (IsOpen(position) ~> ~IsOpen(position))

\* a position closed by the loop for the time limit
C11_Witness ==
    /\ args.op = "update_trade"
    /\ result.action = "close_position"
    /\ result.details.exit_reason = "time_limit"
    /\ result.details.exit_time - result.details.entry_time > 24
    /\ position = NoPosition

\* the call was made on an entry of the table, at one of the three risk levels
SizedFromEntry ==
    /\ args.op = "calculate_position_size"
    /\ EntryExists(args.day, args.pattern)
    /\ risk_level \in {"low", "medium", "high"}

\* C12: for an entry with win_rate in [0, 1], any return_rate and a risk level of
\* low, medium or high, the size fraction lies in [0, 0.5].
C12_SizeWithinBounds ==
    SizedFromEntry =>
        /\ "size" \in DOMAIN result
        /\ result.size.n >= 0
        /\ 2 * result.size.n <= result.size.d

\* the ceiling is reached: win_rate 1 at the high risk level
C12_Witness ==
    /\ SizedFromEntry
    /\ pattern_stats[args.day][args.pattern].win_rate = One
    /\ risk_level = "high"
    /\ result = [size |-> Rat(1, 2)]

\* C13: for a fixed positive return_rate and a fixed risk level the size fraction
\* does not decrease when win_rate increases.
C13_SizeMonotoneInWinRate ==
    (SizedFromEntry /\ pattern_stats[args.day][args.pattern].return_rate.n > 0) =>
        LET entry == pattern_stats[args.day][args.pattern]
        IN  \A w \in SizerWinRates :
                AtMost(entry.win_rate, w) =>
                    AtMost(result.size,
                           calculate_position_size(SizerTable(w, entry.return_rate),
                                                   risk_level, args.pattern, args.day))

\* a size above zero and below the ceiling, so that a larger win rate can raise it
C13_Witness ==
    /\ SizedFromEntry
    /\ pattern_stats[args.day][args.pattern].return_rate.n > 0
    /\ pattern_stats[args.day][args.pattern].win_rate = Rat(6, 10)
    /\ result.size.n > 0
    /\ Less(result.size,
            calculate_position_size(SizerTable(Rat(9, 10),
                                               pattern_stats[args.day][args.pattern].return_rate),
                                    risk_level, args.pattern, args.day))

\* C14: with a risk level other than low, medium, high, or with none configured,
\* the sizer raises, for every statistics table; it returns no size.
C14_UnknownRiskLevelRaises ==
    (args.op = "calculate_position_size" /\ risk_level \notin {"low", "medium", "high"})
        => result = Raised

\* the stop-loss of the claims for a price and a volatility:
\* price * (1 - volatility * multiplier), multiplier by the band of the volatility
ClaimedStop(price, volatility) ==
    LET m == IF Less(Rat(25, 1000), volatility) THEN Rat(3, 2)
             ELSE IF Less(volatility, Rat(2, 100)) THEN Rat(2, 1)
             ELSE Rat(9, 5)
    IN  Rat(price.n * (volatility.d * m.d - volatility.n * m.n),
            price.d * volatility.d * m.d)

\* C15: the initial stop-loss is price * (1 - volatility * multiplier), multiplier
\* 1.5 above 0.025, 2.0 below 0.02, 1.8 from 0.02 to 0.025 inclusive.
C15_StopLossByBand ==
    (args.op = "set_stop_loss" /\ args.day \in DOMAIN volatility_data) =>
        result.stop_loss = ClaimedStop(args.price, volatility_data[args.day])

\* a volatility of exactly 0.025 takes the multiplier 1.8: a stop 4.5% below
C15_Witness ==
    /\ args.op = "set_stop_loss"
    /\ args.day \in DOMAIN volatility_data
    /\ volatility_data[args.day] = Rat(25, 1000)
    /\ result.stop_loss = Rat(args.price.n * 955, args.price.d * 1000)

\* the keys of the volatility table that name the day, in any representation
KeysOfDay(day) == {k \in DOMAIN volatility_data : DayNumber(k) = DayNumber(day)}

\* C16: the stop-loss is computed from the volatility entry of the trading day
\* when one exists, whatever the representation of the day name, and from the
\* fallback 2% only when none exists, the table being empty or not.
C16_StopFromEntryOfDay ==
    args.op = "set_stop_loss" =>
        LET keys == KeysOfDay(args.day)
            volatility == IF keys = {} THEN Rat(2, 100)
                          ELSE volatility_data[CHOOSE k \in keys : TRUE]
        IN  result.stop_loss = ClaimedStop(args.price, volatility)

\* C17: for every position the engine opens,
\* take_profit - entry_price = 1.5 * (entry_price - stop_loss).
C17_RewardToRisk ==
    result.action = "open_trade" =>
        LET p == result.details
        IN  Rat(2 * (p.take_profit.n * p.entry_price.d - p.entry_price.n * p.take_profit.d),
                p.take_profit.d * p.entry_price.d)
              = Rat(3 * (p.entry_price.n * p.stop_loss.d - p.stop_loss.n * p.entry_price.d),
                    p.entry_price.d * p.stop_loss.d)

\* an opened position with its stop below and its target above the entry
C17_Witness ==
    /\ result.action = "open_trade"
    /\ position = result.details
    /\ Less(position.stop_loss, position.entry_price)
    /\ Less(position.entry_price, position.take_profit)

\* C18: with a volatility of zero for the trading day, or with a single price tick,
\* execute_trade opens no position.
C18_BadMarketDataNoTrade ==
    (/\ args.op = "execute_trade"
     /\ \/ Len(args.price_history) < 2
        \/ DictGet(volatility_data, args.day, Rat(2, 100)) = Zero)
        => result.action # "open_trade"

C20_TwoPointClassification ==
    (args.op = "analyze_pattern" /\ Len(args.price_history) = 2) =>
        result.pattern = IF args.price_history[2] > args.price_history[1]
                         THEN "continuous_rise" ELSE "continuous_fall"

\* two equal points classified as continuous_fall
C20_Witness ==
    /\ args.op = "analyze_pattern"
    /\ Len(args.price_history) = 2
    /\ args.price_history[1] = args.price_history[2]
    /\ result.pattern = "continuous_fall"

\* C21: a series of fewer than 2 points is classified insufficient_data and a
\* series of 2 or more points gets one of the four trend labels; no call raises.
C21_LabelByLength ==
    args.op = "analyze_pattern" =>
        /\ "pattern" \in DOMAIN result
        /\ Len(args.price_history) < 2 => result.pattern = "insufficient_data"
        /\ Len(args.price_history) >= 2 =>
              result.pattern \in {"continuous_rise", "continuous_fall",
                                  "rise_then_fall", "fall_then_rise"}

\* a single point classified insufficient_data
C21_Witness ==
    /\ args.op = "analyze_pattern"
    /\ Len(args.price_history) = 1
    /\ result.pattern = "insufficient_data"

\* the two trends of the claims for a series of 3 or more points: the two steps
\* of a 3-point series; last against first of each half of a longer one, split at
\* floor(n / 2)
ClaimedTrends(h) ==
    LET n == Len(h)
        m == n \div 2
    IN  IF n = 3 THEN <<h[2] > h[1], h[3] > h[2]>>
        ELSE <<h[m] > h[1], h[n] > h[m + 1]>>

ClaimedLabel(trends) ==
    CASE trends = <<TRUE, TRUE>> -> "continuous_rise"
      [] trends = <<FALSE, FALSE>> -> "continuous_fall"
      [] trends = <<TRUE, FALSE>> -> "rise_then_fall"
      [] trends = <<FALSE, TRUE>> -> "fall_then_rise"

\* C22: a series of 3 or more points is labelled by its two trends alone, and
\* every series of the same length with the same two trends has the same label.
C22_LabelByTwoTrends ==
    (args.op = "analyze_pattern" /\ Len(args.price_history) >= 3) =>
        /\ result.pattern = ClaimedLabel(ClaimedTrends(args.price_history))
        /\ \A other \in ClassifyHistories :
              (/\ Len(other) = Len(args.price_history)
               /\ ClaimedTrends(other) = ClaimedTrends(args.price_history))
                  => analyze_pattern(other) = result.pattern

\* a series of 5 points whose middle point decides the second trend: the second
\* half rises from the middle point although its last step falls short of the
\* point before
C22_Witness ==
    /\ args.op = "analyze_pattern"
    /\ Len(args.price_history) = 5
    /\ args.price_history[3] < args.price_history[5]
    /\ args.price_history[5] <= args.price_history[4]
    /\ result.pattern \in {"continuous_rise", "fall_then_rise"}

\* the database fallback of the claims: the row entered last, or None
ClaimedFallback(table) ==
    IF table = {} THEN [none |-> TRUE]
    ELSE LET last == CHOOSE r \in table : \A q \in table : q.entry_time <= r.entry_time
         IN  [direction |-> last.direction, entry_price |-> last.entry_price,
              size |-> last.size, stop_loss |-> last.stop_loss,
              take_profit |-> last.take_profit, entry_time |-> last.entry_time,
              pattern |-> last.pattern, day |-> last.day_of_week]

\* C23: get_active_position returns the fallback's answer when the account query
\* raises, and does not consult the fallback when the account query succeeds.
C23_FallbackOnlyOnApiFailure ==
    args.op = "get_active_position" =>
        /\ (args.account = ApiError /\ args.db_ok) =>
              result.value = ClaimedFallback(args.table)
        /\ args.account # ApiError =>
              \A i \in 1..Len(result.calls) :
                  result.calls[i] # "_get_active_position_from_db"

\* an exit condition of the claims matches the position at the price and the clock
ExitFires(p, price, clock) ==
    \/ AtMost(price, p.stop_loss)
    \/ AtMost(p.take_profit, price)
    \/ clock - p.entry_time > 24

\* C24: an update_trade tick on an open position tests the exit conditions on the
\* stop_loss left by the previous tick; when an exit fires the position is closed or
\* left exactly as it was and no update result is returned; the ratchet is applied
\* on the ticks, and only on the ticks, where no exit fires.
C24_ExitBeforeRatchet ==
    [][(IsOpen(position) /\ args'.op = "update_trade") =>
          IF ExitFires(position, args'.price, now)
          THEN /\ result'.action \in {"close_position", "close_failed"}
               /\ position' \in {NoPosition, position}
          ELSE /\ result'.action = "update_position"
               /\ position' = [position EXCEPT !.stop_loss =
                                  Larger(ClaimedCandidate(position, args'.price),
                                         position.stop_loss)]]_vars

\* a tick at the target with a profit in a ratchet band whose closing order fails:
\* the position keeps the stop-loss it had, below the band's candidate
C24_Witness ==
    /\ args.op = "update_trade"
    /\ result.action = "close_failed"
    /\ IsOpen(position)
    /\ AtMost(position.take_profit, args.price)
    /\ Less(position.stop_loss, ClaimedCandidate(position, args.price))

\* C25: a close whose closing order raises answers close_failed and changes
\* nothing: the position stays open with every field as it was, capital and the
\* recorded trades are as they were, and no order is counted; the exit that asked
\* for the close still fires on the position at the same price.
C25_FailedCloseChangesNothing ==
    [][result'.action = "close_failed" =>
          /\ IsOpen(position)
          /\ args'.op \in {"close_position", "update_trade"}
          /\ UNCHANGED <<position, capital, trade_history, orders, pattern_stats,
                         volatility_data>>
          /\ args'.op = "update_trade" => ExitFires(position', args'.price, now')]_vars

\* a tick at or below the stop-loss whose closing order failed: the position is
\* open, nothing is recorded and no closing order is counted
C25_Witness ==
    /\ args.op = "update_trade"
    /\ result.action = "close_failed"
    /\ IsOpen(position)
    /\ AtMost(args.price, position.stop_loss)
    /\ trade_history = << >>
    /\ orders.sell = 0
    /\ capital = P(1000)

\* C26: an execute_trade whose opening order raises answers trade_failed and
\* leaves no position and no order counted; a position is held after an
\* execute_trade only if an opening order was placed: the call's own, whose position
\* it is, or an earlier one when the call did not trade.
C26_PositionOnlyAfterOrder ==
    [][args'.op = "execute_trade" =>
          /\ result'.action = "trade_failed" =>
                (position' = NoPosition /\ orders' = orders)
          /\ IsOpen(position') =>
                \/ /\ result'.action = "open_trade"
                   /\ orders'.buy = orders.buy + 1
                   /\ position' = result'.details
                \/ /\ result'.action \in {"no_trade", "raised"}
                   /\ position' = position
                   /\ orders.buy > 0]_vars

\* an approved trade whose first opening order raised
C26_Witness ==
    /\ args.op = "execute_trade"
    /\ result.action = "trade_failed"
    /\ position = NoPosition
    /\ orders.buy = 0
    /\ should_trade(pattern_stats, risk_level, args.price_history, args.day).trade

\* C27: once a TradeExecutor is constructed with IS_SIMULATED = true, every swap
\* order it sends carries the simulated-trading flag "1", whatever other
\* constructions of ExchangeBase happen in the process.
C27_SimulatedExecutorSendsSimulated ==
    (/\ executor # NoExecutor
     /\ args.op \in {"execute_swap_order", "close_swap_position"}
     /\ "sent_flag" \in DOMAIN result
     /\ result.success)
        => (executor.is_simulated => result.sent_flag = "1")

\* C28: after an update_trade tick at price p that returns an update result and
\* leaves the position open, stop_loss < p < take_profit; the ratcheted stop-loss
\* stays below take_profit.
C28_StopBelowPriceBelowTarget ==
    (args.op = "update_trade" /\ result.action = "update_position") =>
        /\ IsOpen(position)
        /\ position = result.position
        /\ Less(position.stop_loss, args.price)
        /\ Less(args.price, position.take_profit)
        /\ Less(position.stop_loss, position.take_profit)

\* a tick that moved the stop-loss above the entry price, below the price
C28_Witness ==
    /\ args.op = "update_trade"
    /\ result.action = "update_position"
    /\ Less(position.entry_price, position.stop_loss)
    /\ Less(position.stop_loss, args.price)

\* the tables a finished load leaves, and the table of the constructor
CompleteTables ==
    {load_model_data(rows, ok).stats : rows \in RowSets, ok \in BOOLEAN} \cup {EmptyDict}

\* C29: a trading decision never reads a partially rebuilt statistics table: at
\* every should_trade no task is inside the rebuild and the table is one a
\* finished load left (the previous, the new or the default one).
C29_DecisionReadsCompleteTable ==
    args.op = "should_trade" =>
        /\ \A t \in DOMAIN args.loader : args.loader[t].pc # "rebuild"
        /\ args.pattern_stats \in CompleteTables

\* a decision taken on a loaded table while the scheduled reload awaits its query,
\* after which the table was rebuilt
C29_Witness ==
    /\ args.op = "should_trade"
    /\ args.loader["scheduled"].pc = "query"
    /\ args.pattern_stats = load_model_data(RowsEdge, TRUE).stats
    /\ pattern_stats = load_model_data(RowsMixed, TRUE).stats

\* the answer carries a price: it is no failure, it has data, and the field last
\* of its first element is the text of a number
Priced(ticker) ==
    /\ "data" \in DOMAIN ticker
    /\ Len(ticker.data) > 0
    /\ "float" \in DOMAIN ticker.data[1].last

\* C30: get_current_price makes at most 3 ticker queries; it returns the price of
\* the first answer that carries one without querying again; it sleeps 2 then 4
\* seconds between failed attempts and not after the last one; it raises only
\* after three failed attempts; an answer without a price is a failed attempt.
C30_AtMostThreeQueries ==
    args.op = "get_current_price" =>
        LET good == {k \in 1..3 : Priced(args.tickers[k])}
            first == CHOOSE k \in good : \A j \in good : k <= j
        IN  /\ result.queries <= 3
            /\ IF good # {}
               THEN /\ result.value = args.tickers[first].data[1].last.float
                    /\ result.queries = first
                    /\ result.sleeps = SubSeq(<<2, 4>>, 1, first - 1)
               ELSE /\ result.value = [action |-> "raised"]
                    /\ result.queries = 3
                    /\ result.sleeps = <<2, 4>>

\* two failed attempts, one of them an answer without the field last, then a
\* price: three queries, delays 2 and 4, and a later price is not asked for
C30_Witness ==
    /\ args.op = "get_current_price"
    /\ args.tickers[1] = TickerError
    /\ args.tickers[2] = Ticker(None)
    /\ args.tickers[3] = Ticker(Num(9600))
    /\ args.tickers[4] = Ticker(Num(10400))
    /\ result = [value |-> 9600, queries |-> 3, sleeps |-> <<2, 4>>]

====
